---------------------------- MODULE Spec2Model ----------------------------
(***************************************************************************)
(* Model of enumerate.py: main() resolves the project and the region,      *)
(* fetch_models() lists the Master Catalog (us-central1) and, for any      *)
(* other region, probes every listed model through a ThreadPoolExecutor    *)
(* and collects the available ones with as_completed.                      *)
(*                                                                         *)
(* A discovered model object is a record [oid, name]: oid is the object's  *)
(* identity (its position in the listing), name its resource name.  A      *)
(* future is identified by the index of the model it was submitted for.    *)
(***************************************************************************)
EXTENDS Integers, Sequences, FiniteSets, TLC

(* ------------------------------ bounds --------------------------------- *)

\* Longest listing the discovery call returns in the model.
MaxItems == 2

(* ----------------------- constants of the program ---------------------- *)

\* ThreadPoolExecutor(max_workers=50)
MAX_WORKERS == 50

\* Python's None / empty string: both are falsy in `if arg_project:`.
None == ""

MasterRegion == "us-central1"

\* --publisher, at its default (line 184).
Publisher == "google"

\* Mutant: the log records go to standard output.
LogStream_Stdout == "stdout"

\* logging.basicConfig(stream=sys.stderr), line 47: where log records go.
LogStream == "stderr"

\* Line 168: progress is logged every 20 models.
ProgressEvery == 20

\* The API endpoint of a region (lines 117 and 144).
Endpoint(r) == <<r, "-aiplatform.googleapis.com">>

\* Resource names the Master Catalog may list, in a fixed order.
NameList == <<"publishers/google/models/a", "publishers/google/models/b",
              "publishers/google/models/c">>

\* How client.get_publisher_model(name=...) can end: it returns the model,
\* or raises exceptions.NotFound (404), or raises another Exception: a
\* permission error (403), a server error (500), a timeout, or a response
\* that cannot be decoded.
Outcomes == {"ok", "NotFound", "PermissionDenied", "InternalServerError",
             "DeadlineExceeded", "MalformedResponse"}

Unset == "unset"

\* Worker caps the executor is modelled with: the code's own, and 1 and 2,
\* where the cap binds already for listings of up to MaxItems models.
WorkerCaps == {1, 2, MAX_WORKERS}

ProjectArgs == {None, "cli-project"}
ProjectEnvs == {None, "env-project"}
RegionArgs == {None, MasterRegion, "europe-west4"}
RegionEnvs == {None, "europe-west4"}

(* ------------------------------ helpers -------------------------------- *)

Range(s) == {s[k] : k \in DOMAIN s}

\* All sequences over S of length 0..n.
SeqsUpTo(S, n) == UNION {[1..k -> S] : k \in 0..n}

Names == Range(NameList)

Rank(n) == CHOOSE k \in DOMAIN NameList : NameList[k] = n

\* The code never looks into a name, so listings are taken up to renaming:
\* a name is listed only after every name before it in NameList was listed.
\* A name may be listed more than once.
FirstUse(names) ==
    \A i \in DOMAIN names : \A k \in 1..(Rank(names[i]) - 1) :
        \E j \in 1..(i - 1) : names[j] = NameList[k]

\* What the listing call may return: any such listing of 0..MaxItems names.
Listings == {names \in SeqsUpTo(Names, MaxItems) : FirstUse(names)}

\* The listing materialised by list(response): one object per listed name.
MakeModels(names) == [i \in DOMAIN names |-> [oid |-> i, name |-> names[i]]]

VARIABLES
    pc,               \* where main() is
    argProject,       \* --project
    envProject,       \* GOOGLE_CLOUD_PROJECT
    project_id,       \* main: project_id
    region,           \* main: region
    max_workers,      \* the executor's worker cap
    all_models,       \* fetch_models: all_models
    future_to_model,  \* fetch_models: future_to_model (future index -> model)
    work_queue,       \* executor: submitted work items not yet taken, FIFO
    num_threads,      \* executor: worker threads spawned
    idle_semaphore,   \* executor: releases not yet consumed by a submit
    running,          \* futures whose get_publisher_model call is outstanding
    outcome,          \* finished future -> how its get_publisher_model ended
    future_result,    \* finished future -> what future.result() gives
    yielded,          \* futures as_completed has handed to the loop
    count,            \* fetch_models: count
    available_models, \* fetch_models: available_models
    models,           \* main: models (the value fetch_models returned)
    stdout,           \* lines printed to standard output
    exit_code,        \* the status the process ends with: 0 unless set
    list_calls,       \* list_publisher_models calls made
    list_outcome,     \* how the listing call ended, Unset before it
    get_calls,        \* get_publisher_model calls made
    rpc_log,          \* the calls made, in order: client, endpoint, argument
    stderr            \* records written to standard error

vars == <<pc, argProject, envProject, project_id, region, max_workers,
          all_models, future_to_model, work_queue, num_threads,
          idle_semaphore, running, outcome, future_result, yielded, count,
          available_models, models, stdout, exit_code, list_calls,
          list_outcome, get_calls, rpc_log, stderr>>

mainVars == <<argProject, envProject, project_id, region, max_workers>>
poolVars == <<work_queue, num_threads, idle_semaphore, running, outcome,
              future_result>>
loopVars == <<yielded, count, available_models>>
ioVars == <<stdout, exit_code, list_calls, list_outcome, get_calls, rpc_log,
            stderr>>

Futures == DOMAIN all_models
Submitted == DOMAIN future_to_model
Finished == DOMAIN future_result

Init ==
    /\ pc = "main"
    /\ argProject \in ProjectArgs
    /\ envProject \in ProjectEnvs
    /\ project_id = None
    /\ region = None
    /\ max_workers \in WorkerCaps
    /\ all_models = <<>>
    /\ future_to_model = <<>>
    /\ work_queue = <<>>
    /\ num_threads = 0
    /\ idle_semaphore = 0
    /\ running = {}
    /\ outcome = <<>>
    /\ future_result = <<>>
    /\ yielded = {}
    /\ count = 0
    /\ available_models = <<>>
    /\ models = <<>>
    /\ stdout = <<>>
    /\ exit_code = 0
    /\ list_calls = 0
    /\ list_outcome = Unset
    /\ get_calls = 0
    /\ rpc_log = <<>>
    /\ stderr = <<>>

(* ------------------------------- logging ------------------------------- *)

\* What a batch of log records adds to each stream: the logger writes to
\* LogStream only.
ToStdout(records) == IF LogStream = "stdout" THEN records ELSE <<>>
ToStderr(records) == IF LogStream = "stderr" THEN records ELSE <<>>

\* logger.info / warning / error of the records, with nothing printed.
Log(records) ==
    /\ stdout' = stdout \o ToStdout(records)
    /\ stderr' = stderr \o ToStderr(records)

(* -------------------------------- main --------------------------------- *)

\* Mutant: the environment variable is looked at first.
get_project_id_EnvFirst(arg_project, env_project) ==
    IF env_project # None THEN env_project
    ELSE IF arg_project # None THEN arg_project
    ELSE None

\* get_project_id: the CLI argument, else the environment, else no project.
get_project_id(arg_project, env_project) ==
    IF arg_project # None THEN arg_project
    ELSE IF env_project # None THEN env_project
    ELSE None

\* args.region or os.getenv("REGION") or "us-central1"
ResolveRegion(arg_region, env_region) ==
    IF arg_region # None THEN arg_region
    ELSE IF env_region # None THEN env_region
    ELSE MasterRegion

\* main, lines 186-194: resolve the project (or exit 1), resolve the region,
\* and enter fetch_models.
Configure ==
    /\ pc = "main"
    /\ IF get_project_id(argProject, envProject) = None
       THEN /\ Log(<< <<"ERROR", "Could not determine Project ID">> >>)
            /\ pc' = "exited"
            /\ exit_code' = 1
            /\ UNCHANGED <<project_id, region>>
       ELSE /\ project_id' = get_project_id(argProject, envProject)
            /\ \E a \in RegionArgs, e \in RegionEnvs :
                   region' = ResolveRegion(a, e)
            /\ pc' = "discover"
            /\ UNCHANGED <<exit_code, stdout, stderr>>
    /\ UNCHANGED <<argProject, envProject, max_workers, all_models,
                   future_to_model, poolVars, loopVars, models,
                   list_calls, list_outcome, get_calls, rpc_log>>

(* ---------------------------- fetch_models ------------------------------ *)

\* Lines 117-127: discovery_client, bound to the us-central1 endpoint, lists
\* the publisher's models.
ListCall ==
    [method |-> "list_publisher_models", client |-> "discovery_client",
     endpoint |-> Endpoint(MasterRegion),
     name |-> <<"publishers/", Publisher>>, future |-> 0]

\* Lines 125-129: the listing call against the master endpoint succeeds and
\* list(response) materialises the whole catalog.
DiscoverOk ==
    /\ pc = "discover"
    /\ list_calls' = list_calls + 1
    /\ list_outcome' = "ok"
    /\ rpc_log' = Append(rpc_log, ListCall)
    /\ \E names \in Listings :
           all_models' = MakeModels(names)
    /\ Log(<< <<"INFO", "Discovery: Fetching full catalog">>,
              <<"INFO", "Discovery: Found models", Len(all_models')>> >>)
    /\ pc' = "filter"
    /\ UNCHANGED <<mainVars, future_to_model, poolVars, loopVars, models,
                   exit_code, get_calls>>

\* Mutant: the failed listing is logged and the run goes on with an empty
\* catalog.
DiscoverFail_Continue ==
    /\ pc = "discover"
    /\ list_calls' = list_calls + 1
    /\ list_outcome' = "error"
    /\ rpc_log' = Append(rpc_log, ListCall)
    /\ Log(<< <<"INFO", "Discovery: Fetching full catalog">>,
              <<"ERROR", "Failed to discover models">> >>)
    /\ all_models' = <<>>
    /\ pc' = "filter"
    /\ UNCHANGED <<mainVars, future_to_model, poolVars, loopVars, models,
                   exit_code, get_calls>>

\* Lines 130-132: the listing call raises; the error is logged to stderr and
\* sys.exit(1) ends the process.
DiscoverFail ==
    /\ pc = "discover"
    /\ list_calls' = list_calls + 1
    /\ list_outcome' = "error"
    /\ rpc_log' = Append(rpc_log, ListCall)
    /\ Log(<< <<"INFO", "Discovery: Fetching full catalog">>,
              <<"ERROR", "Failed to discover models">> >>)
    /\ pc' = "exited"
    /\ exit_code' = 1
    /\ UNCHANGED <<mainVars, all_models, future_to_model, poolVars, loopVars,
                   models, get_calls>>

\* Mutant: the fast path is missing, every region is probed.
IsMasterRegion_Never(r) == FALSE

\* Line 136: the target region is the Master Catalog's own region.
IsMasterRegion(r) == r = MasterRegion

\* Lines 136-138: the fast path returns the discovery list itself.
ReturnCatalog ==
    /\ pc = "filter"
    /\ IsMasterRegion(region)
    /\ Log(<< <<"INFO", "Region is us-central1; returning full catalog">> >>)
    /\ models' = all_models
    /\ pc' = "returned"
    /\ UNCHANGED <<mainVars, all_models, future_to_model, poolVars, loopVars,
                   exit_code, list_calls, list_outcome, get_calls, rpc_log>>

\* Lines 140-151: the region client, the empty result list and the executor
\* are created; no future exists yet.
StartFiltering ==
    /\ pc = "filter"
    /\ ~IsMasterRegion(region)
    /\ Log(<< <<"INFO", "Filtering: Verifying availability", region,
                Len(all_models)>> >>)
    /\ available_models' = <<>>
    /\ pc' = "submit"
    /\ UNCHANGED <<mainVars, all_models, future_to_model, poolVars, yielded,
                   count, models, exit_code, list_calls, list_outcome,
                   get_calls, rpc_log>>

\* Mutant: a thread is spawned for every submit that finds no idle worker.
SpawnsThread_Unbounded(idle, threads, cap) == idle = 0

\* ThreadPoolExecutor._adjust_thread_count, run by every submit: an idle
\* worker is reused if the semaphore can be taken, otherwise a thread is
\* spawned unless max_workers threads exist already.
SpawnsThread(idle, threads, cap) == idle = 0 /\ threads < cap

\* Lines 153-156: one executor.submit of the dict comprehension, in listing
\* order; the comprehension records the future's model.
Submit ==
    /\ pc = "submit"
    /\ Len(future_to_model) < Len(all_models)
    /\ LET i == Len(future_to_model) + 1 IN
         /\ future_to_model' = Append(future_to_model, all_models[i])
         /\ work_queue' = Append(work_queue, i)
    /\ IF idle_semaphore > 0
       THEN /\ idle_semaphore' = idle_semaphore - 1
            /\ UNCHANGED num_threads
       ELSE /\ num_threads' = IF SpawnsThread(idle_semaphore, num_threads,
                                               max_workers)
                              THEN num_threads + 1 ELSE num_threads
            /\ UNCHANGED idle_semaphore
    /\ UNCHANGED <<pc, mainVars, all_models, running, outcome, future_result,
                   loopVars, models, ioVars>>

\* Lines 158-162: every model is submitted; count = 0 and the as_completed
\* loop begins.
StartLoop ==
    /\ pc = "submit"
    /\ Len(future_to_model) = Len(all_models)
    /\ count' = 0
    /\ pc' = "as_completed"
    /\ UNCHANGED <<mainVars, all_models, future_to_model, poolVars, yielded,
                   available_models, models, ioVars>>

\* Mutant: the probes are serialised: a work item is taken only when no
\* call is outstanding.
WorkerFree_Exclusive == num_threads > 0 /\ running = {}

\* A worker thread is free to take the next work item.
WorkerFree == Cardinality(running) < num_threads

\* Mutant: the probes go to the endpoint discovery used.
ProbeEndpoint_Master(r) == Endpoint(MasterRegion)

\* Lines 143-145: the endpoint region_client is bound to.
ProbeEndpoint(r) == Endpoint(r)

\* Lines 93 and 154: the call check_model_availability makes for future i,
\* through region_client, with the name of the model it was submitted for.
GetCall(i) ==
    [method |-> "get_publisher_model", client |-> "region_client",
     endpoint |-> ProbeEndpoint(region), name |-> all_models[i].name,
     future |-> i]

\* A worker thread takes the oldest work item and runs
\* check_model_availability, which calls client.get_publisher_model (line 93).
StartProbe ==
    /\ pc \in {"submit", "as_completed"}
    /\ work_queue # <<>>
    /\ WorkerFree
    /\ running' = running \cup {Head(work_queue)}
    /\ work_queue' = Tail(work_queue)
    /\ get_calls' = get_calls + 1
    /\ rpc_log' = Append(rpc_log, GetCall(Head(work_queue)))
    /\ UNCHANGED <<pc, mainVars, all_models, future_to_model, num_threads,
                   idle_semaphore, outcome, future_result, loopVars, models,
                   stdout, exit_code, list_calls, list_outcome, stderr>>

\* What a finished future holds: the value its function returned, or the
\* exception that left the function.
Returns(b) == [exception |-> FALSE, result |-> b]
Raises == [exception |-> TRUE, result |-> FALSE]

\* Mutant: only a 404 counts as unavailable; any other error is swallowed
\* and the model reported available.
check_model_availability_Only404(o) ==
    IF o = "NotFound" THEN Returns(FALSE) ELSE Returns(TRUE)

\* Mutant: only NotFound is caught; any other exception leaves the function.
check_model_availability_Uncaught(o) ==
    IF o = "ok" THEN Returns(TRUE)
    ELSE IF o = "NotFound" THEN Returns(FALSE)
    ELSE Raises

\* check_model_availability, lines 92-100: True when the call returned,
\* False on NotFound, False on any other Exception.
check_model_availability(o) ==
    IF o = "ok" THEN Returns(TRUE)
    ELSE IF o = "NotFound" THEN Returns(FALSE)
    ELSE Returns(FALSE)

\* Mutant: a failed fetch is retried: its work item goes back to the queue.
FinishProbe_Retry(i, o) ==
    /\ pc \in {"submit", "as_completed"}
    /\ i \in running
    /\ IF o = "ok"
       THEN /\ outcome' = outcome @@ (i :> o)
            /\ future_result' =
                   future_result @@ (i :> check_model_availability(o))
            /\ UNCHANGED work_queue
       ELSE /\ work_queue' = Append(work_queue, i)
            /\ UNCHANGED <<outcome, future_result>>
    /\ running' = running \ {i}
    /\ idle_semaphore' = idle_semaphore + 1
    /\ UNCHANGED <<pc, mainVars, all_models, future_to_model, num_threads,
                   loopVars, models, ioVars>>

\* Mutant: the worker itself appends an available model to the shared list.
FinishProbe_Writes(i, o) ==
    /\ pc \in {"submit", "as_completed"}
    /\ i \in running
    /\ outcome' = outcome @@ (i :> o)
    /\ future_result' = future_result @@ (i :> check_model_availability(o))
    /\ running' = running \ {i}
    /\ idle_semaphore' = idle_semaphore + 1
    /\ available_models' =
           IF check_model_availability(o).result
           THEN Append(available_models, all_models[i])
           ELSE available_models
    /\ UNCHANGED <<pc, mainVars, all_models, future_to_model, work_queue,
                   num_threads, yielded, count, models, ioVars>>

\* The outstanding get_publisher_model call of future i ends with outcome o;
\* check_model_availability returns and the future is finished.  The worker
\* releases the idle semaphore and goes back to the queue.
FinishProbe(i, o) ==
    /\ pc \in {"submit", "as_completed"}
    /\ i \in running
    /\ outcome' = outcome @@ (i :> o)
    /\ future_result' = future_result @@ (i :> check_model_availability(o))
    /\ running' = running \ {i}
    /\ idle_semaphore' = idle_semaphore + 1
    /\ UNCHANGED <<pc, mainVars, all_models, future_to_model, work_queue,
                   num_threads, loopVars, models, ioVars>>

\* Mutant: the object the region returned, under a name of its own, is
\* appended instead of the discovered model.
Collected_Response(avail, model, is_available) ==
    IF is_available
    THEN Append(avail, [oid |-> model.oid,
                        name |-> "publishers/google/models/regional"])
    ELSE avail

\* Mutant: the result is assigned, not appended to: the last available
\* model to complete wins.
Collected_Overwrite(avail, model, is_available) ==
    IF is_available THEN <<model>> ELSE avail

\* Mutant: the model is appended whatever its probe said.
Collected_Always(avail, model, is_available) == Append(avail, model)

\* Mutant: an available model is appended twice.
Collected_Twice(avail, model, is_available) ==
    IF is_available THEN Append(Append(avail, model), model) ELSE avail

\* Lines 171-172: the model is appended when its future's result is true.
Collected(avail, model, is_available) ==
    IF is_available THEN Append(avail, model) ELSE avail

\* Lines 162-172: one iteration of the loop, for a finished future that
\* as_completed has not handed out yet.  future.result() (line 164) gives
\* the boolean, or raises what left check_model_availability: nothing in
\* fetch_models or main catches that, and the process ends with status 1.
Collect(i) ==
    /\ pc = "as_completed"
    /\ i \in Finished \ yielded
    /\ yielded' = yielded \cup {i}
    /\ IF future_result[i].exception
       THEN /\ pc' = "exited"
            /\ exit_code' = 1
            /\ stderr' = Append(stderr, <<"Traceback">>)
            /\ UNCHANGED <<count, available_models, stdout>>
       ELSE /\ count' = count + 1
            /\ Log(IF count' % ProgressEvery = 0
                   THEN << <<"INFO", "Checked models", count',
                             Len(all_models)>> >>
                   ELSE <<>>)
            /\ available_models' =
                   Collected(available_models, future_to_model[i],
                             future_result[i].result)
            /\ UNCHANGED <<pc, exit_code>>
    /\ UNCHANGED <<mainVars, all_models, future_to_model, poolVars, models,
                   list_calls, list_outcome, get_calls, rpc_log>>

\* Mutant: the loop stops at the first completed future.
LoopDone_First == yielded # {} \/ DOMAIN future_to_model = {}

\* Mutant: the loop waits for one batch of max_workers futures only.
LoopDone_FirstBatch ==
    \/ yielded = DOMAIN future_to_model
    \/ Cardinality(yielded) >= max_workers

\* Mutant: the loop waits for at least one completed future.
LoopDone_NonEmpty == yielded # {} /\ yielded = DOMAIN future_to_model

\* as_completed is exhausted: every future of future_to_model was handed out.
LoopDone == yielded = DOMAIN future_to_model

\* Line 162: the loop ends; the with block is left.
ExitLoop ==
    /\ pc = "as_completed"
    /\ LoopDone
    /\ pc' = "shutdown"
    /\ UNCHANGED <<mainVars, all_models, future_to_model, poolVars, loopVars,
                   models, ioVars>>

\* executor.shutdown(wait=True) at the end of the with block: joined when no
\* work item is queued or running.
Drained == work_queue = <<>> /\ running = {}

\* Lines 151 and 174: the executor is shut down and available_models returned.
ReturnAvailable ==
    /\ pc = "shutdown"
    /\ Drained
    /\ models' = available_models
    /\ pc' = "returned"
    /\ UNCHANGED <<mainVars, all_models, future_to_model, poolVars, loopVars,
                   ioVars>>

(* ------------------------------- output -------------------------------- *)

Header(r) ==
    <<"# Models available in ", r, " for publisher '", Publisher, "'">>
PolicyLine(name) == <<"- ", name, ":predict">>

\* Lines 196-205: the header and one policy line per model, or only a
\* warning on stderr when the list is empty.
Printed(ms, r) ==
    IF ms # <<>>
    THEN <<Header(r)>> \o [k \in DOMAIN ms |-> PolicyLine(ms[k].name)]
    ELSE <<>>

\* Lines 197 and 205: what main logs about the result, before printing.
Summary(ms, r) ==
    IF ms # <<>>
    THEN << <<"INFO", "Successfully retrieved models", Len(ms), r>> >>
    ELSE << <<"WARNING", "No models found available", r>> >>

Emit ==
    /\ pc = "returned"
    /\ stdout' = stdout \o ToStdout(Summary(models, region))
                        \o Printed(models, region)
    /\ stderr' = stderr \o ToStderr(Summary(models, region))
    /\ pc' = "done"
    /\ UNCHANGED <<mainVars, all_models, future_to_model, poolVars, loopVars,
                   models, exit_code, list_calls, list_outcome, get_calls,
                   rpc_log>>

Next ==
    \/ Configure
    \/ DiscoverOk
    \/ DiscoverFail
    \/ ReturnCatalog
    \/ StartFiltering
    \/ Submit
    \/ StartLoop
    \/ StartProbe
    \/ \E i \in Futures, o \in Outcomes : FinishProbe(i, o)
    \/ \E i \in Futures : Collect(i)
    \/ ExitLoop
    \/ ReturnAvailable
    \/ Emit

Spec == Init /\ [][Next]_vars

(* ------------------------------ scheduling ----------------------------- *)

\* The main thread and the worker threads are scheduled fairly: a step of
\* the program that stays possible is eventually taken, and the listing call
\* ends.  Nothing is assumed here about when a get_publisher_model call
\* ends: that is up to the network.
SchedFairness ==
    /\ WF_vars(Configure)
    /\ WF_vars(DiscoverOk \/ DiscoverFail)
    /\ WF_vars(ReturnCatalog)
    /\ WF_vars(StartFiltering)
    /\ WF_vars(Submit)
    /\ WF_vars(StartLoop)
    /\ WF_vars(StartProbe)
    /\ WF_vars(\E i \in Futures : Collect(i))
    /\ WF_vars(ExitLoop)
    /\ WF_vars(ReturnAvailable)
    /\ WF_vars(Emit)

\* The runs whose project is given on the command line.  fetch_models never
\* reads project_id, so the fair runs start from this one configuration.
InitConfigured == Init /\ argProject # None /\ envProject = None

SpecSched == InitConfigured /\ [][Next]_vars /\ SchedFairness

\* The get_publisher_model call of future i, once made, eventually returns
\* or raises.
FetchEnds(i) == WF_vars(\E o \in Outcomes : FinishProbe(i, o))

(* ------------------------------ properties ------------------------------ *)

\* fetch_models has returned to main: models is its result.
Returned == pc \in {"returned", "done"}

\* fetch_models has returned from the probing path (a non-master region).
Resolved == Returned /\ region # MasterRegion

NamesOf(ms) == {ms[k].name : k \in DOMAIN ms}

\* How often name n occurs in the list ms.
Occurrences(ms, n) == Cardinality({k \in DOMAIN ms : ms[k].name = n})

\* Futures whose fetch succeeded / ended in any failure.
Succeeded == {i \in DOMAIN outcome : outcome[i] = "ok"}
Failed == {i \in DOMAIN outcome : outcome[i] # "ok"}

\* C1 (subset): at every moment, every model collected so far and every
\* model of the returned result carries a name the discovery listed: no
\* identifier absent from discovery appears in the result.
C1_Subset ==
    /\ NamesOf(available_models) \subseteq NamesOf(all_models)
    /\ NamesOf(models) \subseteq NamesOf(all_models)

\* A probing run returned some, but not all, of two listed models.
C1_Witness ==
    /\ Resolved
    /\ Len(all_models) = 2
    /\ Len(models) = 1

\* C2 (fast-path identity): when the target region is us-central1, no
\* get_publisher_model call is ever made, and the returned list is the
\* discovered list itself.
C2_FastPath ==
    region = MasterRegion =>
        /\ get_calls = 0
        /\ Returned => models = all_models

\* The fast path returned a listing of two models.
C2_Witness ==
    /\ region = MasterRegion
    /\ pc = "returned"
    /\ Len(all_models) = 2
    /\ models = all_models

\* C3 (fail-closed): a listed model whose own fetch ended in anything but
\* success (not-found, permission error, server error, timeout, malformed
\* response) is never among the collected models nor in the returned result
\* of a probing run, whatever the other probes did.
C3_FailClosed ==
    region # MasterRegion =>
        \A i \in Failed :
            /\ all_models[i] \notin Range(available_models)
            /\ all_models[i] \notin Range(models)

\* A probing run returned after one fetch succeeded and another timed out.
C3_Witness ==
    /\ Resolved
    /\ \E i, j \in DOMAIN outcome :
          /\ outcome[i] = "ok"
          /\ outcome[j] = "DeadlineExceeded"
    /\ Len(models) = 1

\* C4 (exact aggregation): when a probing run has returned, a listed model
\* is in the result if and only if its own fetch succeeded.
C4_ExactAggregation ==
    Resolved =>
        \A i \in Futures : all_models[i] \in Range(models) <=> i \in Succeeded

\* Both fetches succeeded and the second listed model completed first: the
\* result holds both, in completion order.
C4_Witness ==
    /\ Resolved
    /\ Len(all_models) = 2
    /\ models = <<all_models[2], all_models[1]>>

\* C5 (barrier): when fetch_models has returned from the probing path, every
\* listed model was submitted, every future is finished and was consumed by
\* the loop, and no work item is queued or running.
C5_Barrier ==
    Resolved =>
        /\ DOMAIN future_to_model = Futures
        /\ DOMAIN outcome = Futures
        /\ yielded = Futures
        /\ work_queue = <<>>
        /\ running = {}

\* A probing run over two models has returned.
C5_Witness ==
    /\ pc = "returned"
    /\ region # MasterRegion
    /\ Len(all_models) = 2
    /\ get_calls = 2

\* C6 (concurrency bound): at every moment the number of outstanding
\* get_publisher_model calls is at most the executor's max_workers.
C6_ConcurrencyBound == Cardinality(running) <= max_workers

\* The cap binds: max_workers calls are outstanding while a work item waits.
C6_Witness ==
    /\ Cardinality(running) = max_workers
    /\ work_queue # <<>>

\* C7 (discovery failure is fatal): once the listing call has failed, the
\* process has exited with status 1, no model was listed, submitted or
\* probed, and nothing was written to standard output.
C7_DiscoveryFatal ==
    list_outcome = "error" =>
        /\ pc = "exited"
        /\ exit_code = 1
        /\ all_models = <<>>
        /\ DOMAIN future_to_model = {}
        /\ get_calls = 0
        /\ models = <<>>
        /\ stdout = <<>>

\* The listing call failed.
C7_Witness ==
    /\ list_outcome = "error"
    /\ list_calls = 1
    /\ exit_code = 1

\* C8 (probe failures are contained): no finished future holds an exception,
\* the process never exits with an error once probing has begun, and while
\* fetch_models is probing or collecting some step is always possible: the
\* run is never aborted or stuck, whichever probes failed.
C8_FailuresContained ==
    /\ \A i \in DOMAIN future_result : ~future_result[i].exception
    /\ (pc \in {"submit", "as_completed", "shutdown"} \/ get_calls > 0) =>
           /\ pc # "exited"
           /\ exit_code # 1
    /\ pc \in {"submit", "as_completed", "shutdown"} => ENABLED Next

\* Every probe of a two-model listing failed and the run ended normally with
\* an empty result.
C8_Witness ==
    /\ pc = "done"
    /\ exit_code = 0
    /\ Cardinality(Failed) = 2
    /\ models = <<>>
    /\ stdout = <<>>

\* The probe oracle was deterministic in this run: fetches of the same name
\* ended the same way.
DeterministicOracle ==
    \A i, j \in DOMAIN outcome :
        all_models[i].name = all_models[j].name => outcome[i] = outcome[j]

RECURSIVE SequentialResolve(_, _)
\* The result of probing ms one by one, in listing order, against the oracle
\* ok (model index -> whether its fetch succeeds).
SequentialResolve(ms, ok) ==
    IF ms = <<>> THEN <<>>
    ELSE LET rest == SequentialResolve(SubSeq(ms, 1, Len(ms) - 1), ok)
             last == ms[Len(ms)]
         IN IF ok[last.oid] THEN Append(rest, last) ELSE rest

\* C9 (order independence): with a deterministic oracle, whatever the
\* interleaving and completion order of the probes, the set of names a
\* probing run returns is the set the in-order sequential run returns; so
\* any two executions on the same listing and oracle return the same set.
C9_OrderIndependent ==
    (Resolved /\ DeterministicOracle) =>
        NamesOf(models) =
            NamesOf(SequentialResolve(all_models,
                                      [i \in Futures |-> i \in Succeeded]))

\* A deterministic run whose probes completed against the listing order.
C9_Witness ==
    /\ Resolved
    /\ DeterministicOracle
    /\ Len(models) = 2
    /\ models[1].oid > models[2].oid

\* C10 as claimed (no duplicates): the returned result holds each name at
\* most once, for every listing and region.
C10_NoDuplicates ==
    Returned => \A n \in Names : Occurrences(models, n) <= 1

\* C10 as amended: the returned result holds each name at most as often as
\* the discovered list does, and no model object twice; a listing without
\* duplicates gives a result without duplicates.
C10_NoNewDuplicates ==
    Returned =>
        /\ \A n \in Names : Occurrences(models, n) <= Occurrences(all_models, n)
        /\ \A k1, k2 \in DOMAIN models : models[k1] = models[k2] => k1 = k2

\* A probing run over a listing that names one model twice returned both.
C10_Witness ==
    /\ Resolved
    /\ Len(all_models) = 2
    /\ all_models[1].name = all_models[2].name
    /\ Len(models) = 2

\* C11 (cap independence): whatever the worker cap (1, 2 or 50), a probing
\* run returns exactly the models the sequential, one-worker-in-listing-order
\* run returns for the same listing and the same fetch outcomes: the cap
\* never changes which models are returned.
C11_CapIndependent ==
    \A k \in WorkerCaps :
        (Resolved /\ max_workers = k) =>
            Range(models) =
                Range(SequentialResolve(all_models,
                                        [i \in Futures |-> i \in Succeeded]))

\* A run with cap 2 used both workers and returned one of two models.
C11_Witness ==
    /\ Resolved
    /\ max_workers = 2
    /\ num_threads = 2
    /\ Len(all_models) = 2
    /\ Len(models) = 1

\* C12 (configuration failure is fatal and early): with no project on the
\* command line nor in the environment, the run does nothing but exit with
\* status 1: no listing call, no probe call, nothing on standard output.
\* Otherwise the project is the command line's when given, else the
\* environment's.
C12_ConfigFatal ==
    /\ (argProject = None /\ envProject = None) =>
           /\ pc \in {"main", "exited"}
           /\ pc = "exited" => exit_code = 1
           /\ list_calls = 0
           /\ get_calls = 0
           /\ rpc_log = <<>>
           /\ stdout = <<>>
    /\ (pc # "main" /\ argProject # None) => project_id = argProject
    /\ (pc # "main" /\ argProject = None /\ envProject # None) =>
           project_id = envProject

\* No project is configured and the run has exited with an error record.
C12_Witness ==
    /\ argProject = None
    /\ envProject = None
    /\ pc = "exited"
    /\ exit_code = 1
    /\ Len(stderr) = 1

\* The state of the probe of future i.
ProbeState(i) ==
    IF i \in DOMAIN outcome
    THEN IF future_result[i].result THEN "Confirmed" ELSE "Denied"
    ELSE IF i \in running THEN "InFlight"
    ELSE IF i \in Range(work_queue) THEN "Pending"
    ELSE "NotSubmitted"

\* The get_publisher_model calls made for future i.
GetCount(i) ==
    Cardinality({k \in DOMAIN rpc_log :
                    /\ rpc_log[k].method = "get_publisher_model"
                    /\ rpc_log[k].future = i})

ProbeMoves ==
    {<<"NotSubmitted", "Pending">>, <<"Pending", "InFlight">>,
     <<"InFlight", "Confirmed">>, <<"InFlight", "Denied">>}

\* Every step leaves each probe where it is or moves it along ProbeMoves.
ProbeStep ==
    \A i \in DOMAIN all_models' :
        \/ ProbeState(i)' = ProbeState(i)
        \/ <<ProbeState(i), ProbeState(i)'>> \in ProbeMoves

\* One fetch was issued for every probe that is in flight or terminal, none
\* for any other, and a submitted probe is never back at NotSubmitted.
FetchedOnce ==
    \A i \in Futures :
        /\ GetCount(i) =
               IF ProbeState(i) \in {"InFlight", "Confirmed", "Denied"}
               THEN 1 ELSE 0
        /\ i \in DOMAIN future_to_model => ProbeState(i) # "NotSubmitted"
        /\ Resolved => ProbeState(i) \in {"Confirmed", "Denied"}

\* C13 (per-probe state machine): each probe only moves Pending -> InFlight
\* -> Confirmed or Denied (a terminal state never changes), and the fetch of
\* a submitted model is issued exactly once, also after a failure.
C13_ProbeStateMachine == []FetchedOnce /\ [][ProbeStep]_vars

\* A run returned with one probe Confirmed and one Denied, each fetched once.
C13_Witness ==
    /\ Resolved
    /\ \E i, j \in Futures :
          /\ ProbeState(i) = "Confirmed"
          /\ ProbeState(j) = "Denied"
          /\ GetCount(i) = 1
          /\ GetCount(j) = 1

\* C14 (no cross-task cancellation): let the fetch of any one future h be
\* free never to end, while the fetch of every other future ends.  With more
\* than one worker (the code has 50), every other submitted probe still
\* reaches a terminal outcome; and as long as any call is outstanding,
\* fetch_models has not returned.
C14_NoCrossCancellation ==
    /\ [](running # {} => ~Returned)
    /\ \A h \in 1..MaxItems :
          (\A i \in (1..MaxItems) \ {h} : FetchEnds(i)) =>
              (max_workers > 1 =>
                  \A i \in (1..MaxItems) \ {h} :
                      [](i \in DOMAIN future_to_model
                            => <>(i \in DOMAIN outcome)))

\* The first probe is still in flight, its sibling has finished and been
\* collected, and fetch_models is still waiting.
C14_Witness ==
    /\ pc = "as_completed"
    /\ 1 \in running
    /\ 2 \in DOMAIN outcome
    /\ yielded = {2}

\* C15 (termination): if the fetch of every future ends, then for a
\* non-master region and any listing, the empty one included, every
\* submitted probe is eventually started and fetch_models eventually returns.
C15_Termination ==
    (\A i \in 1..MaxItems : FetchEnds(i)) =>
        /\ (pc = "submit") ~> Resolved
        /\ \A i \in 1..MaxItems :
              (i \in DOMAIN future_to_model) ~> (GetCount(i) = 1)

\* The probing path returned for an empty listing.
C15_Witness ==
    /\ pc = "returned"
    /\ region # MasterRegion
    /\ list_outcome = "ok"
    /\ all_models = <<>>
    /\ models = <<>>

\* fetch_models is past its listing call: it goes on, has returned, or the
\* listing failed.
PastDiscovery ==
    \/ pc \in {"filter", "submit", "as_completed", "shutdown", "returned",
               "done"}
    \/ pc = "exited" /\ project_id # None

WorkerStep ==
    \/ running' # running
    \/ outcome' # outcome
    \/ future_result' # future_result

\* A step that writes the result list or the counter is one iteration of the
\* collecting loop: it consumes one finished future, counts it, and appends
\* at most that future's own model.
CollectorWrite ==
    /\ pc = "as_completed"
    /\ ~WorkerStep
    /\ count' = count + 1
    /\ \E i \in DOMAIN outcome \ yielded :
          /\ yielded' = yielded \cup {i}
          /\ \/ available_models' = available_models
             \/ available_models' = Append(available_models, all_models[i])

SingleWriterStep ==
    /\ WorkerStep => UNCHANGED <<available_models, count, yielded>>
    /\ (available_models' # available_models \/ count' # count)
           => CollectorWrite

\* The counter counts the consumed futures, and the list holds at most one
\* entry per consumed future and no model twice.
OneEntryPerProbe ==
    /\ count = Cardinality(yielded)
    /\ Len(available_models) <= count
    /\ \A k1, k2 \in DOMAIN available_models :
          available_models[k1] = available_models[k2] => k1 = k2

\* C17 (single-writer aggregation): worker steps never change
\* available_models or count; only the collecting loop does, one consumed
\* future at a time, adding at most one entry, for that future's own model.
C17_SingleWriter == []OneEntryPerProbe /\ [][SingleWriterStep]_vars

\* The loop has collected one available model while a worker is still
\* running another probe.
C17_Witness ==
    /\ pc = "as_completed"
    /\ running # {}
    /\ count = 1
    /\ Len(available_models) = 1

\* C18 (primary output stays clean): nothing is on standard output before
\* main has its result, nor ever when the result is empty or the run exited
\* on a configuration or discovery failure; otherwise standard output is
\* exactly the header line followed by one policy line per model of the
\* result, in order.  Every log record is on standard error.
C18_CleanStdout ==
    /\ pc # "done" => stdout = <<>>
    /\ (pc = "done" /\ models = <<>>) => stdout = <<>>
    /\ (pc = "done" /\ models # <<>>) =>
           /\ Len(stdout) = Len(models) + 1
           /\ stdout[1] = <<"# Models available in ", region,
                            " for publisher '", "google", "'">>
           /\ \A k \in DOMAIN models :
                  stdout[k + 1] = <<"- ", models[k].name, ":predict">>
    /\ pc \in {"exited", "done"} => stderr # <<>>

\* A run printed the header and two policy lines.
C18_Witness ==
    /\ pc = "done"
    /\ Len(models) = 2
    /\ Len(stdout) = 3

=============================================================================
